---- MODULE Spec2Model ----
(***************************************************************************)
(* A model of the bencode decoder of src/src/decoder.rs: the byte cursor,  *)
(* the integer lexer (take_int), the tokenizer (raw_next_token), the       *)
(* grammar state machine with its frame stack (next_token), and the lazy   *)
(* object layer (Decoder::next, ListDecoder, DictDecoder and their Drop).  *)
(*                                                                         *)
(* Bytes are one-character strings; Code gives their ASCII value.  Offsets *)
(* are 0-based as in the source, so source[i] of the code is At(i) here.   *)
(***************************************************************************)
EXTENDS Integers, Sequences, FiniteSets, TLC

VARIABLES
    source,          \* Decoder.source: the input bytes
    offset,          \* Decoder.offset: the cursor
    state,           \* Decoder.state: the frame stack, top last
    overflowChecks,  \* whether the build panics on integer overflow (debug) or wraps (release)
    panicked,        \* a panic has unwound the caller
    subs,            \* the live ListDecoder/DictDecoder borrows, innermost last
    op,              \* the operation that ran last
    result,          \* what that operation returned
    before,          \* cursor, stack, borrows and trace length when that operation was called
    trace,           \* the tokens next_token has returned so far, with their spans
    dropped          \* the sub-decoder the last drop destroyed

vars == <<source, offset, state, overflowChecks, panicked, subs, op, result,
          before, trace, dropped>>

-----------------------------------------------------------------------------
(* Bounds of the model *)

\* every byte sequence over Alphabet up to this length is an input
MaxLen == 3

\* usize, scaled down: the largest value of the machine word
UsizeMax == 999

Alphabet == {"d", "l", "i", "e", "0", "1", ":", "-", "a"}

\* ASCII values of the bytes the model uses
Code(c) ==
    CASE c = "-" -> 45  [] c = "0" -> 48  [] c = "1" -> 49  [] c = "2" -> 50
      [] c = "3" -> 51  [] c = "4" -> 52  [] c = "5" -> 53  [] c = "6" -> 54
      [] c = "7" -> 55  [] c = "8" -> 56  [] c = "9" -> 57  [] c = ":" -> 58
      [] c = "a" -> 97  [] c = "b" -> 98  [] c = "c" -> 99  [] c = "d" -> 100
      [] c = "e" -> 101 [] c = "f" -> 102 [] c = "i" -> 105 [] c = "l" -> 108
      [] c = "o" -> 111 [] c = "r" -> 114 [] c = "x" -> 120 [] c = "y" -> 121

-----------------------------------------------------------------------------
(* Values *)

NoBytes == <<>>

\* enum Error
NoErr == [kind |-> "-", msg |-> "", got |-> "", at |-> 0]
InvalidState(m) == [kind |-> "InvalidState", msg |-> m, got |-> "", at |-> 0]
UnsortedKeys == [kind |-> "UnsortedKeys", msg |-> "", got |-> "", at |-> 0]
UnexpectedEof == [kind |-> "UnexpectedEof", msg |-> "", got |-> "", at |-> 0]
SyntaxError(m, at) == [kind |-> "SyntaxError", msg |-> m, got |-> "", at |-> at]

\* Error::unexpected: "Expected {}, got {:?} at offset {}"
Unexpected(expected, got, at) ==
    [kind |-> "SyntaxError", msg |-> expected, got |-> got, at |-> at]

\* enum Token
NoTok == [t |-> "-", v |-> NoBytes]
TokList == [t |-> "List", v |-> NoBytes]
TokDict == [t |-> "Dict", v |-> NoBytes]
TokEnd == [t |-> "End", v |-> NoBytes]
TokString(b) == [t |-> "String", v |-> b]
TokNum(s) == [t |-> "Num", v |-> s]

\* enum DecodeState
Seq_ == [k |-> "Seq", some |-> FALSE, key |-> NoBytes, err |-> NoErr]
MapKey(some, key) == [k |-> "MapKey", some |-> some, key |-> key, err |-> NoErr]
MapValue(key) == [k |-> "MapValue", some |-> TRUE, key |-> key, err |-> NoErr]
Failed(e) == [k |-> "Failed", some |-> FALSE, key |-> NoBytes, err |-> e]

\* what a call returns: Ok(None), Ok(Some(..)), Err(..), or a panic
RInit == [tag |-> "Init", tok |-> NoTok, key |-> NoBytes, err |-> NoErr]
RNone == [tag |-> "None", tok |-> NoTok, key |-> NoBytes, err |-> NoErr]
RTok(t) == [tag |-> "Some", tok |-> t, key |-> NoBytes, err |-> NoErr]
RPair(k, t) == [tag |-> "Some", tok |-> t, key |-> k, err |-> NoErr]
RErr(e) == [tag |-> "Err", tok |-> NoTok, key |-> NoBytes, err |-> e]
RPanic == [tag |-> "Panic", tok |-> NoTok, key |-> NoBytes, err |-> NoErr]

-----------------------------------------------------------------------------
(* The byte cursor *)

At(i) == source[i + 1]

\* &self.source[from..to]
Slice(from, to) == SubSeq(source, from + 1, to)

IsDigit(c) == Code(c) >= Code("0") /\ Code(c) <= Code("9")
IsDigit19(c) == Code(c) >= Code("1") /\ Code(c) <= Code("9")

\* Decoder::take_chunk: None unless offset + count is strictly inside the input
TakeChunk(off, count) ==
    LET end_pos == off + count
    IN  IF end_pos <= UsizeMax /\ end_pos < Len(source)
        THEN [some |-> TRUE, off |-> end_pos, bytes |-> Slice(off, end_pos)]
        ELSE [some |-> FALSE, off |-> off, bytes |-> NoBytes]

-----------------------------------------------------------------------------
(* The integer lexer *)

\* format!("{:?}", expected_end)
EndMsg(expected_end) == IF expected_end = "e" THEN "'e'" ELSE "':'"

\* format!("{:?} or '0'..'9'", expected_end)
EndOrDigitMsg(expected_end) ==
    IF expected_end = "e" THEN "'e' or '0'..'9'" ELSE "':' or '0'..'9'"

ScanErr(e) == [done |-> "err", endpos |-> 0, err |-> e]

\* the while loop of take_int: endpos is the next byte to look at, st the
\* State of the scan; it ends at the terminator (endpos already past it), at
\* the first offending byte, or at the end of the input
RECURSIVE ScanInt(_, _, _)
ScanInt(endpos, st, expected_end) ==
    IF ~(endpos < Len(source))
    THEN [done |-> "eof", endpos |-> endpos, err |-> NoErr]
    ELSE LET c == At(endpos)
             e1 == endpos + 1
         IN  CASE st = "Start" ->
                    IF c = "-" THEN ScanInt(e1, "Sign", expected_end)
                    ELSE IF c = "0" THEN ScanInt(e1, "Zero", expected_end)
                    ELSE IF IsDigit19(c) THEN ScanInt(e1, "Digits", expected_end)
                    ELSE ScanErr(Unexpected("'-' or '0'..'9'", c, e1 - 1))
               [] st = "Zero" ->
                    IF c = expected_end
                    THEN [done |-> "ok", endpos |-> e1, err |-> NoErr]
                    ELSE ScanErr(Unexpected(EndMsg(expected_end), c, e1 - 1))
               [] st = "Sign" ->
                    IF IsDigit19(c) THEN ScanInt(e1, "Digits", expected_end)
                    ELSE ScanErr(Unexpected("'1'..'9'", c, e1 - 1))
               [] st = "Digits" ->
                    IF IsDigit(c) THEN ScanInt(e1, "Digits", expected_end)
                    ELSE IF c = expected_end
                    THEN [done |-> "ok", endpos |-> e1, err |-> NoErr]
                    ELSE ScanErr(Unexpected(EndOrDigitMsg(expected_end), c, e1 - 1))

\* the slice take_int returns on success: from the cursor up to endpos
IntSlice(off, endpos) == Slice(off, endpos)

\* take_int that moves the cursor to endpos before it looks at success
TakeIntFrom_CursorMoved(off, sc) ==
    IF sc.done = "ok"
    THEN [ok |-> TRUE, off |-> sc.endpos, text |-> IntSlice(off, sc.endpos),
          err |-> NoErr]
    ELSE IF sc.done = "eof"
    THEN [ok |-> FALSE, off |-> sc.endpos, text |-> NoBytes, err |-> UnexpectedEof]
    ELSE [ok |-> FALSE, off |-> off, text |-> NoBytes, err |-> sc.err]

\* what take_int does once the scan sc has ended
TakeIntFrom(off, sc) ==
    IF sc.done = "ok"
    THEN [ok |-> TRUE, off |-> sc.endpos, text |-> IntSlice(off, sc.endpos),
          err |-> NoErr]
    ELSE IF sc.done = "eof"
    THEN [ok |-> FALSE, off |-> off, text |-> NoBytes, err |-> UnexpectedEof]
    ELSE [ok |-> FALSE, off |-> off, text |-> NoBytes, err |-> sc.err]

\* Decoder::take_int with the cursor at off
TakeInt(off, expected_end) ==
    TakeIntFrom(off, ScanInt(off, "Start", expected_end))

\* usize::from_str_radix(text, 10) on a text that starts with a digit: every
\* byte must be a digit and the value must fit the machine word
RECURSIVE ParseDigits(_, _)
ParseDigits(text, acc) ==
    IF text = <<>> THEN [ok |-> TRUE, val |-> acc]
    ELSE IF ~IsDigit(Head(text)) THEN [ok |-> FALSE, val |-> 0]
    ELSE IF acc * 10 + (Code(Head(text)) - Code("0")) > UsizeMax
    THEN [ok |-> FALSE, val |-> 0]
    ELSE ParseDigits(Tail(text), acc * 10 + (Code(Head(text)) - Code("0")))

FromStrRadix(text) ==
    IF text = <<>> THEN [ok |-> FALSE, val |-> 0]
    ELSE ParseDigits(text, 0)

-----------------------------------------------------------------------------
(* The tokenizer *)

\* a token lexed with the cursor moved one byte too far
LexOk_CursorSkipsByte(off, tok) ==
    [ok |-> TRUE, off |-> off + 1, tok |-> tok, err |-> NoErr]

LexOk(off, tok) == [ok |-> TRUE, off |-> off, tok |-> tok, err |-> NoErr]
LexErr(off, e) == [ok |-> FALSE, off |-> off, tok |-> NoTok, err |-> e]

\* Token::String(self.take_chunk(len).ok_or(Error::UnexpectedEof)?)
StringOfChunk(off, ch) ==
    IF ch.some THEN LexOk(ch.off, TokString(ch.bytes))
    ELSE LexErr(off, UnexpectedEof)

\* the length parsed from the prefix text, then the payload
StringOfLen(curpos, off, len) ==
    IF ~len.ok THEN LexErr(off, SyntaxError("Invalid integer", curpos))
    ELSE StringOfChunk(off, TakeChunk(off, len.val))

\* the digit arm of raw_next_token once take_int(':') has returned ti
StringOfPrefix(curpos, ti) ==
    IF ~ti.ok THEN LexErr(ti.off, ti.err)
    ELSE StringOfLen(curpos, ti.off, FromStrRadix(ti.text))

\* the digit arm of raw_next_token, the cursor put back on the first digit
RawString(curpos) == StringOfPrefix(curpos, TakeInt(curpos, ":"))

\* Token::Num(self.take_int('e')?)
RawNum(ti) ==
    IF ti.ok THEN LexOk(ti.off, TokNum(ti.text)) ELSE LexErr(ti.off, ti.err)

\* the match of raw_next_token on the byte c it took; o1 is the cursor past it
RawDispatch(c, o1) ==
    CASE c = "e" -> LexOk(o1, TokEnd)
      [] c = "l" -> LexOk(o1, TokList)
      [] c = "d" -> LexOk(o1, TokDict)
      [] c = "i" -> RawNum(TakeInt(o1, "e"))
      [] c \notin {"e", "l", "d", "i"} /\ IsDigit(c) -> RawString(o1 - 1)
      [] OTHER -> LexErr(o1, SyntaxError("Invalid token", o1 - 1))

\* Decoder::raw_next_token with the cursor at off; off and err of the result
\* are the cursor and the error it leaves
RawNextToken(off) ==
    IF ~(off < Len(source)) THEN LexErr(off, UnexpectedEof)
    ELSE RawDispatch(At(off), off + 1)

-----------------------------------------------------------------------------
(* The frame stack *)

\* the index  len - 1  that peek and peek_mut compute: with overflow checks
\* (a debug build) the subtraction panics on an empty Vec, without them it
\* wraps to the largest usize
PeekIndex(st) ==
    IF Len(st) > 0 THEN [panic |-> FALSE, idx |-> Len(st) - 1]
    ELSE IF overflowChecks THEN [panic |-> TRUE, idx |-> 0]
    ELSE [panic |-> FALSE, idx |-> UsizeMax]

\* Vec::get of the index i
PeekAt(st, i) ==
    IF i.panic THEN [panic |-> TRUE, some |-> FALSE, top |-> Seq_]
    ELSE IF i.idx < Len(st)
    THEN [panic |-> FALSE, some |-> TRUE, top |-> st[i.idx + 1]]
    ELSE [panic |-> FALSE, some |-> FALSE, top |-> Seq_]

\* Stack::peek
Peek(st) == PeekAt(st, PeekIndex(st))

Push(st, f) == Append(st, f)
Pop(st) == SubSeq(st, 1, Len(st) - 1)

\* Stack::replace_top, called only with a frame on the stack
ReplaceTop(st, f) == [st EXCEPT ![Len(st)] = f]

\* latch_err that returns the error without recording it
LatchErr_NotRecorded(st, e) == st

\* Decoder::latch_err on an Err: the error becomes the top frame
LatchErr(st, e) == Push(st, Failed(e))

\* the if let of check_error on the frame pk that peek returned
CheckErrorOf(pk) ==
    IF pk.panic THEN [panic |-> TRUE, failed |-> FALSE, err |-> NoErr]
    ELSE IF pk.some /\ pk.top.k = "Failed"
    THEN [panic |-> FALSE, failed |-> TRUE, err |-> pk.top.err]
    ELSE [panic |-> FALSE, failed |-> FALSE, err |-> NoErr]

\* Decoder::check_error: the error of a Failed top frame, if any
CheckError(st) == CheckErrorOf(Peek(st))

\* a < b for byte slices: lexicographic on the byte values
RECURSIVE BytesLess(_, _)
BytesLess(a, b) ==
    IF b = <<>> THEN FALSE
    ELSE IF a = <<>> THEN TRUE
    ELSE IF Code(Head(a)) < Code(Head(b)) THEN TRUE
    ELSE IF Code(Head(a)) > Code(Head(b)) THEN FALSE
    ELSE BytesLess(Tail(a), Tail(b))

\* oldlabel >= label
BytesGe(a, b) == ~BytesLess(a, b)

-----------------------------------------------------------------------------
(* The grammar state machine *)

Out(off, st, res) == [off |-> off, st |-> st, res |-> res]

\* a validation failure that leaves the cursor past the first byte of the
\* token it rejects
Reject_CursorNotRestored(start_offset, st, e) ==
    Out(start_offset + 1, LatchErr(st, e), RErr(e))

\* a validation failure of next_token: the cursor goes back to start_offset
\* and the error is latched
Reject(start_offset, st, e) == Out(start_offset, LatchErr(st, e), RErr(e))

\* Ok(Some(tok)) with the cursor left one byte short of the end of the token
Accept_CursorNotAdvanced(off, st2, tok) == Out(off - 1, st2, RTok(tok))

\* Ok(Some(tok)) with the frame stack st2
Accept(off, st2, tok) == Out(off, st2, RTok(tok))

\* the match of next_token on (pk, tok), pk the frame peek returned: one arm
\* runs, the first that matches; off is the cursor after the token,
\* start_offset the cursor before it
ValidateTop(pk, st, tok, start_offset, off) ==
    IF pk.panic THEN Out(off, st, RPanic)
    ELSE CASE ~pk.some /\ tok.t = "End" ->
                Reject(start_offset, st,
                       InvalidState("End not allowed at top level"))
           [] pk.some /\ pk.top.k = "Seq" /\ tok.t = "End" ->
                Accept(off, Pop(st), tok)
           [] pk.some /\ pk.top.k = "MapKey" /\ tok.t = "End" ->
                Accept(off, Pop(st), tok)
           [] pk.some /\ pk.top.k = "MapKey" /\ ~pk.top.some /\ tok.t = "String" ->
                Accept(off, ReplaceTop(st, MapValue(tok.v)), tok)
           [] pk.some /\ pk.top.k = "MapKey" /\ pk.top.some /\ tok.t = "String" ->
                IF BytesGe(pk.top.key, tok.v)
                THEN Reject(start_offset, st, UnsortedKeys)
                ELSE Accept(off, ReplaceTop(st, MapValue(tok.v)), tok)
           [] pk.some /\ pk.top.k = "MapKey" /\ tok.t \notin {"End", "String"} ->
                Reject(start_offset, st, InvalidState("Map keys must be strings"))
           [] pk.some /\ pk.top.k = "MapValue" ->
                Accept(off, ReplaceTop(st, MapKey(TRUE, pk.top.key)), tok)
           [] (~pk.some \/ pk.top.k \notin {"MapKey", "MapValue"})
                /\ tok.t = "List" -> Accept(off, Push(st, Seq_), tok)
           [] (~pk.some \/ pk.top.k \notin {"MapKey", "MapValue"})
                /\ tok.t = "Dict" -> Accept(off, Push(st, MapKey(FALSE, NoBytes)), tok)
           [] OTHER -> Accept(off, st, tok)

Validate(st, tok, start_offset, off) ==
    ValidateTop(Peek(st), st, tok, start_offset, off)

\* the end-of-input branch of next_token
AtEnd(off, st) ==
    IF st = <<>> THEN Out(off, st, RNone)
    ELSE Out(off, LatchErr(st, UnexpectedEof), RErr(UnexpectedEof))

\* next_token once raw_next_token has returned raw: a lexing error is
\* latched, a token is validated
AfterRaw(off, st, raw) ==
    IF ~raw.ok THEN Out(raw.off, LatchErr(st, raw.err), RErr(raw.err))
    ELSE Validate(st, raw.tok, off, raw.off)

\* next_token once check_error has returned ce
AfterCheck(off, st, ce) ==
    IF ce.panic THEN Out(off, st, RPanic)
    ELSE IF ce.failed THEN Out(off, st, RErr(ce.err))
    ELSE IF off = Len(source) THEN AtEnd(off, st)
    ELSE AfterRaw(off, st, RawNextToken(off))

\* Decoder::next_token with the cursor at off and the frame stack st
NextToken(off, st) == AfterCheck(off, st, CheckError(st))

-----------------------------------------------------------------------------
(* A decoder in flight: cursor, frame stack and the tokens returned so far *)

M(off, st, tr, res) == [off |-> off, st |-> st, tr |-> tr, res |-> res]

\* the trace after next_token returned o to the decoder m: a returned token
\* is logged with the span [from, to) of input it covers and the stack depth
\* it was read at
Logged(m, o) ==
    M(o.off, o.st,
      IF o.res.tag = "Some"
      THEN Append(m.tr, [tok |-> o.res.tok, from |-> m.off, to |-> o.off,
                         depth |-> Len(m.st)])
      ELSE m.tr,
      o.res)

\* one next_token call on the decoder m
Token_(m) == Logged(m, NextToken(m.off, m.st))

\* the match of Decoder::next on what next_token returned: End and the clean
\* end become "no value"; the other tokens become the Object of the same kind
\* (Object::into_token is the way back)
ObjOf(n) ==
    IF n.res.tag = "Some" /\ n.res.tok.t = "End"
    THEN M(n.off, n.st, n.tr, RNone)
    ELSE n

\* Decoder::next
ObjNext(m) == ObjOf(Token_(m))

IsOpen(res) == res.tag = "Some" /\ res.tok.t \in {"List", "Dict"}

\* a sub-decoder's next: the decoder after the call, the finished flag after
\* the call and the result
S(m, fin) == [off |-> m.off, st |-> m.st, tr |-> m.tr, res |-> m.res, fin |-> fin]

\* ListDecoder::next once self.decoder.next() has returned item
ListItem(item, finished) ==
    IF item.res.tag \in {"Err", "Panic"} THEN S(item, finished)
    ELSE S(item, item.res.tag = "None")

\* ListDecoder::next without the test of the finished flag
ListNext_IgnoresFinished(m, finished) == ListItem(ObjNext(m), finished)

\* ListDecoder::next
ListNext(m, finished) ==
    IF finished THEN S(M(m.off, m.st, m.tr, RNone), TRUE)
    ELSE ListItem(ObjNext(m), finished)

\* the drain loops of Drop for ListDecoder and Drop for DictDecoder, and
\* DictDecoder::next, which drops (and so drains) a key Object that is a List
\* or Dict when into_token consumes it.  iters counts the calls of next the
\* loop made; res is RPanic if a call panicked
RECURSIVE DrainList(_, _, _)
RECURSIVE DrainDict(_, _, _)
RECURSIVE DictNext(_, _)

D(m, iters) == [off |-> m.off, st |-> m.st, tr |-> m.tr, res |-> m.res,
                iters |-> iters]

\* dropping the Object a call returned: a ListDecoder or DictDecoder drains
DropObject(r) ==
    IF IsOpen(r.res)
    THEN IF r.res.tok.t = "List"
         THEN DrainList(M(r.off, r.st, r.tr, r.res), FALSE, 0)
         ELSE DrainDict(M(r.off, r.st, r.tr, r.res), FALSE, 0)
    ELSE D(r, 0)

\* Ok(Some((k, self.decoder.next()?.unwrap()))): unwrap panics on None
DictValue(k, val, finished) ==
    IF val.res.tag \in {"Err", "Panic"} THEN S(val, finished)
    ELSE IF val.res.tag = "None"
    THEN S(M(val.off, val.st, val.tr, RPanic), finished)
    ELSE S(M(val.off, val.st, val.tr, RPair(k, val.res.tok)), finished)

\* the else branch of DictDecoder::next, the key Object dropped
DictEnd(d, finished) ==
    IF d.res.tag = "Panic" THEN S(M(d.off, d.st, d.tr, RPanic), finished)
    ELSE S(M(d.off, d.st, d.tr, RNone), TRUE)

\* DictDecoder::next once self.decoder.next() has returned key
DictKey(key, finished) ==
    IF key.res.tag \in {"Err", "Panic"} THEN S(key, finished)
    ELSE IF key.res.tag = "Some" /\ key.res.tok.t = "String"
    THEN DictValue(key.res.tok.v, ObjNext(key), finished)
    ELSE DictEnd(DropObject(key), finished)

\* DictDecoder::next
DictNext(m, finished) ==
    IF finished THEN S(M(m.off, m.st, m.tr, RNone), TRUE)
    ELSE DictKey(ObjNext(m), finished)

\* the end of one iteration of a drain loop of the sub-decoder of that kind:
\* the item has been dropped, leaving d
DrainOn(kind, d, fin, iters) ==
    IF d.res.tag = "Panic" THEN D(d, iters)
    ELSE IF kind = "List"
    THEN DrainList(M(d.off, d.st, d.tr, RNone), fin, iters)
    ELSE DrainDict(M(d.off, d.st, d.tr, RNone), fin, iters)

\* one iteration of a drain loop: next returned r
DrainStep(kind, r, iters) ==
    IF r.res.tag = "Some" THEN DrainOn(kind, DropObject(r), r.fin, iters + 1)
    ELSE D(r, iters + 1)

\* while let Ok(Some(_)) = self.next() {}  of a ListDecoder
DrainList(m, finished, iters) == DrainStep("List", ListNext(m, finished), iters)

\* while let Ok(Some(_)) = self.next() {}  of a DictDecoder
DrainDict(m, finished, iters) == DrainStep("Dict", DictNext(m, finished), iters)

-----------------------------------------------------------------------------
(* Inputs *)

\* static SIMPLE_MSG
SIMPLE_MSG ==
    <<"d", "3", ":", "b", "a", "r", "i", "1", "e", "3", ":", "f", "o", "o",
      "l", "i", "2", "e", "i", "3", "e", "e">>

\* the inputs the specification's testable properties name, and a few more
\* with nested structures
Samples ==
    { SIMPLE_MSG,
      <<"3", ":", "a", "b", "c">>,
      <<"3", ":", "a", "b">>,
      <<"3", ":", "a", "b", "c", "e">>,
      <<"i", "-", "5", "e">>,
      <<"i", "0", "1", "e">>,
      <<"l", "i", "1", "e", "i", "2", "e", "e", "i", "3", "e">>,
      <<"l", "l", "i", "1", "e", "d", "e", "e", "l", "e", "e", "i", "0", "e">>,
      <<"l", "d", "e", "i", "1", "e", "e", "l", "e">>,
      <<"l", "1", ":", "a", "e", "i", "3", "e">>,
      <<"d", "3", ":", "f", "o", "o", "e">>,
      <<"d", "1", ":", "a", "l", "e", "e">>,
      <<"d", "1", ":", "b", "i", "0", "e", "1", ":", "a", "i", "0", "e", "e">>,
      <<"d", "1", ":", "a", "i", "0", "e", "1", ":", "b", "i", "0", "e", "e">>,
      <<"d", "1", ":", "b", "d", "1", ":", "a", "i", "1", "e", "e", "e">>,
      <<"d", "3", ":", "f", "o", "o", "3", ":", "x", "x", "3", ":", "b", "a",
        "r", "3", ":", "y", "y", "e">>,
      <<"i", "1", "e", "l", "e", "d", "e">>,
      <<"l", "i", "1", "e">>,
      <<"d", "e", "l", "e", "e">>,
      <<"d", "i", "0", "e", "e">>,
      <<"l", "d", "i", "1", "e", "e", "e">>,
      <<"i", "-", "0", "e">>,
      <<"i", "-", "1", "0", "e">>,
      <<"l", "1", "0", ":", "e">> }

\* the byte sequences of length n over Alphabet
RECURSIVE SeqsOfLen(_)
SeqsOfLen(n) ==
    IF n = 0 THEN {<<>>}
    ELSE {Append(s, c) : s \in SeqsOfLen(n - 1), c \in Alphabet}

ShortInputs == UNION { SeqsOfLen(n) : n \in 0..MaxLen }

Inputs == ShortInputs \cup Samples

-----------------------------------------------------------------------------
(* The state machine *)

Init ==
    /\ source \in Inputs
    /\ offset = 0
    /\ state = <<>>
    /\ overflowChecks \in BOOLEAN
    /\ panicked = FALSE
    /\ subs = <<>>
    /\ op = "new"
    /\ result = RInit
    /\ before = [off |-> 0, st |-> <<>>, subs |-> <<>>, ntok |-> 0]
    /\ trace = <<>>
    /\ dropped = [kind |-> "-", tix |-> 0, finished |-> FALSE, iters |-> 0]

Now == M(offset, state, trace, result)

\* ListDecoder{decoder: self, finished: false} or DictDecoder{..}; tix is the
\* place of its open token in the trace
NewSub(r) == [kind |-> r.res.tok.t, finished |-> FALSE, tix |-> Len(r.tr)]

\* the decoder fields and the bookkeeping every call leaves behind
Returns(name, r) ==
    /\ offset' = r.off
    /\ state' = r.st
    /\ trace' = r.tr
    /\ result' = r.res
    /\ panicked' = (r.res.tag = "Panic")
    /\ op' = name
    /\ before' = [off |-> offset, st |-> state, subs |-> subs,
                   ntok |-> Len(trace)]
    /\ UNCHANGED <<source, overflowChecks>>

\* the caller calls next_token on the Decoder
CallNextToken ==
    /\ ~panicked
    /\ subs = <<>>
    /\ Returns("next_token", Token_(Now))
    /\ UNCHANGED <<subs, dropped>>

\* the borrows after a call of next returned r
Borrowed(hs, r) == IF IsOpen(r.res) THEN Append(hs, NewSub(r)) ELSE hs

CallNextReturns(r) ==
    /\ Returns("next", r)
    /\ subs' = Borrowed(<<>>, r)

\* the caller calls next on the Decoder; a List or Dict borrows it
CallNext ==
    /\ ~panicked
    /\ subs = <<>>
    /\ CallNextReturns(ObjNext(Now))
    /\ UNCHANGED dropped

Innermost == subs[Len(subs)]

SubNextReturns(r) ==
    /\ Returns("sub_next", r)
    /\ subs' = Borrowed([subs EXCEPT ![Len(subs)].finished = r.fin], r)

\* the caller calls next on the innermost live ListDecoder or DictDecoder
SubNext ==
    /\ ~panicked
    /\ subs # <<>>
    /\ SubNextReturns(IF Innermost.kind = "List"
                      THEN ListNext(Now, Innermost.finished)
                      ELSE DictNext(Now, Innermost.finished))
    /\ UNCHANGED dropped

DropReturns(r) ==
    /\ Returns("drop", r)
    /\ dropped' = [kind |-> Innermost.kind, tix |-> Innermost.tix,
                   finished |-> Innermost.finished, iters |-> r.iters]
    /\ subs' = Pop(subs)

\* the innermost live ListDecoder or DictDecoder goes out of scope
DropSub ==
    /\ ~panicked
    /\ subs # <<>>
    /\ DropReturns(IF Innermost.kind = "List"
                   THEN DrainList(Now, Innermost.finished, 0)
                   ELSE DrainDict(Now, Innermost.finished, 0))

Next == CallNextToken \/ CallNext \/ SubNext \/ DropSub

Spec == Init /\ [][Next]_vars

-----------------------------------------------------------------------------
(* The grammar of the specification, used to state the claims:             *)
(*   integer := 'i' ('-'? nonzero digit* | '0') 'e'                        *)
(*   string  := len ':' byte{len}                                          *)
(*   list    := 'l' value* 'e'                                             *)
(*   dict    := 'd' (string value)* 'e'     keys strictly increasing       *)

\* the first position q >= p holding the byte c, or -1
RECURSIVE FindByte(_, _)
FindByte(p, c) ==
    IF p >= Len(source) THEN -1
    ELSE IF At(p) = c THEN p
    ELSE FindByte(p + 1, c)

AllDigits(text) == \A k \in 1..Len(text) : text[k] \in {"0", "1", "2", "3", "4", "5", "6", "7", "8", "9"}

\* '0', or a digit 1-9 followed by digits
GrammarUnsigned(text) ==
    /\ text # <<>>
    /\ AllDigits(text)
    /\ (text[1] = "0" => Len(text) = 1)

\* an optional '-' before a nonzero unsigned text, or '0'
GrammarInt(text) ==
    \/ GrammarUnsigned(text)
    \/ /\ Len(text) >= 2
       /\ text[1] = "-"
       /\ GrammarUnsigned(Tail(text))
       /\ text[2] # "0"

RECURSIVE DecimalValue(_, _)
DecimalValue(text, acc) ==
    IF text = <<>> THEN acc
    ELSE DecimalValue(Tail(text), acc * 10 + (Code(Head(text)) - Code("0")))

GTok(tok, to) == [ok |-> TRUE, tok |-> tok, to |-> to, err |-> "-"]
GErr(kind) == [ok |-> FALSE, tok |-> NoTok, to |-> 0, err |-> kind]

\* the integer token whose 'i' is at p
GrammarNum(p) ==
    LET q == FindByte(p + 1, "e")
    IN  IF q = -1 THEN GErr("UnexpectedEof")
        ELSE IF GrammarInt(Slice(p + 1, q)) THEN GTok(TokNum(Slice(p + 1, q)), q + 1)
        ELSE GErr("SyntaxError")

\* the string token whose length prefix starts at p
GrammarString(p) ==
    LET q == FindByte(p, ":")
        n == DecimalValue(Slice(p, q), 0)
    IN  IF q = -1 THEN GErr("UnexpectedEof")
        ELSE IF ~GrammarUnsigned(Slice(p, q)) THEN GErr("SyntaxError")
        ELSE IF q + 1 + n > Len(source) THEN GErr("UnexpectedEof")
        ELSE GTok(TokString(Slice(q + 1, q + 1 + n)), q + 1 + n)

\* the token of the grammar that starts at p < Len(source)
GrammarToken(p) ==
    CASE At(p) = "e" -> GTok(TokEnd, p + 1)
      [] At(p) = "l" -> GTok(TokList, p + 1)
      [] At(p) = "d" -> GTok(TokDict, p + 1)
      [] At(p) = "i" -> GrammarNum(p)
      [] At(p) \in {"0", "1", "2", "3", "4", "5", "6", "7", "8", "9"} -> GrammarString(p)
      [] OTHER -> GErr("SyntaxError")

GStep(stk) == [ok |-> TRUE, stk |-> stk, err |-> "-"]
GBad(kind) == [ok |-> FALSE, stk |-> <<>>, err |-> kind]

\* a List or Dict token opens a frame on stk
GrammarOpen(stk, tok) ==
    IF tok.t = "List" THEN Append(stk, Seq_)
    ELSE IF tok.t = "Dict" THEN Append(stk, MapKey(FALSE, NoBytes))
    ELSE stk

\* the table of the grammar state machine: the frames after tok is read with
\* the frames stk open
GrammarStep(stk, tok) ==
    IF stk = <<>>
    THEN IF tok.t = "End" THEN GBad("InvalidState") ELSE GStep(GrammarOpen(stk, tok))
    ELSE LET top == stk[Len(stk)]
         IN  CASE top.k = "Seq" ->
                    IF tok.t = "End" THEN GStep(Pop(stk))
                    ELSE GStep(GrammarOpen(stk, tok))
               [] top.k = "MapKey" ->
                    IF tok.t = "End" THEN GStep(Pop(stk))
                    ELSE IF tok.t # "String" THEN GBad("InvalidState")
                    ELSE IF top.some /\ ~BytesLess(top.key, tok.v)
                    THEN GBad("UnsortedKeys")
                    ELSE GStep(ReplaceTop(stk, MapValue(tok.v)))
               [] top.k = "MapValue" ->
                    GStep(GrammarOpen(ReplaceTop(stk, MapKey(TRUE, top.key)), tok))

GRun(err, at, toks, stk) == [err |-> err, at |-> at, toks |-> toks, stk |-> stk]

\* reading the input by the grammar from position p with the frames stk open,
\* toks read so far: the tokens in input order and how the reading ends
\* ("end" for the clean end, else the kind of the first error and the cursor
\* it leaves).  With stopAtClose it stops ("closed") once no frame is open.
RECURSIVE GrammarRun(_, _, _, _)
GrammarRun(p, stk, toks, stopAtClose) ==
    IF stopAtClose /\ toks # <<>> /\ stk = <<>> THEN GRun("closed", p, toks, stk)
    ELSE IF p >= Len(source)
    THEN GRun(IF stk = <<>> THEN "end" ELSE "UnexpectedEof", p, toks, stk)
    ELSE LET t == GrammarToken(p)
             v == GrammarStep(stk, t.tok)
         IN  IF ~t.ok THEN GRun(t.err, p, toks, stk)
             ELSE IF ~v.ok THEN GRun(v.err, p, toks, stk)
             ELSE GrammarRun(t.to, v.stk, Append(toks, t.tok), stopAtClose)

\* the input is well-formed: one or more complete values, nothing else
WellFormed == GrammarRun(0, <<>>, <<>>, FALSE).err = "end"

\* the position after the complete value that starts at p, or -1
ValueEnd(p) ==
    LET g == GrammarRun(p, <<>>, <<>>, TRUE)
    IN  IF g.err = "closed" THEN g.at ELSE -1

\* the tokens next_token has returned so far
Returned == [k \in 1..Len(trace) |-> trace[k].tok]

IsPrefix(a, b) == Len(a) <= Len(b) /\ a = SubSeq(b, 1, Len(a))

Top(st) == st[Len(st)]
TopIs(st, k) == st # <<>> /\ Top(st).k = k

\* a token read here cannot fail validation: top level, inside a list, or a
\* dict value position
AnyTokenAllowed(st) == st = <<>> \/ Top(st).k \in {"Seq", "MapValue"}

-----------------------------------------------------------------------------
(* C1 *)

\* C1: for a well-formed input in which a dict value is itself a list or a
\* dict, next_token returns the tokens of the input in order, without error,
\* and then the clean end; for SIMPLE_MSG these are Dict, String "bar",
\* Num "1", String "foo", List, Num "2", Num "3", End, End.
C1_HasOpenValue ==
    source \in { SIMPLE_MSG,
                 <<"d", "1", ":", "a", "l", "e", "e">>,
                 <<"d", "1", ":", "b", "d", "1", ":", "a", "i", "1", "e", "e", "e">> }

C1_SimpleMsgTokens ==
    <<TokDict, TokString(<<"b", "a", "r">>), TokNum(<<"1">>),
      TokString(<<"f", "o", "o">>), TokList, TokNum(<<"2">>), TokNum(<<"3">>),
      TokEnd, TokEnd>>

\* the tokens the claim expects of the input
C1_Expected ==
    IF source = SIMPLE_MSG THEN C1_SimpleMsgTokens
    ELSE GrammarRun(0, <<>>, <<>>, FALSE).toks

C1_NestedValueTokenization ==
    (C1_HasOpenValue /\ op = "next_token") =>
        /\ result.tag \in {"Some", "None"}
        /\ IsPrefix(Returned, C1_Expected)
        /\ result.tag = "None" => Returned = C1_Expected

-----------------------------------------------------------------------------
(* C2 *)

\* C2: when next_token reads a token that starts with a digit and has a
\* well-formed length prefix n ended by ':', it returns String of the n bytes
\* after the ':' and leaves the cursor just past them if n bytes remain (also
\* when they are the last bytes of the input), and fails with UnexpectedEof
\* if fewer remain.
C2_PrefixEnd == FindByte(before.off, ":")
C2_Len == DecimalValue(Slice(before.off, C2_PrefixEnd), 0)

C2_ReadsString ==
    /\ op = "next_token"
    /\ AnyTokenAllowed(before.st)
    /\ before.off < Len(source)
    /\ C2_PrefixEnd # -1
    /\ GrammarUnsigned(Slice(before.off, C2_PrefixEnd))

C2_StringPayload ==
    C2_ReadsString =>
        IF C2_PrefixEnd + 1 + C2_Len <= Len(source)
        THEN /\ result = RTok(TokString(Slice(C2_PrefixEnd + 1,
                                              C2_PrefixEnd + 1 + C2_Len)))
             /\ offset = C2_PrefixEnd + 1 + C2_Len
        ELSE result = RErr(UnexpectedEof)

-----------------------------------------------------------------------------
(* C3 *)

\* C3: for 'i' T 'e' with T well-formed integer text, next_token returns
\* Num(T), the text being the sign and digits without the 'i' and without
\* the 'e', and leaves the cursor just past the 'e'.
C3_TextEnd == FindByte(before.off + 1, "e")

C3_ReadsInt ==
    /\ op = "next_token"
    /\ AnyTokenAllowed(before.st)
    /\ before.off < Len(source)
    /\ At(before.off) = "i"
    /\ C3_TextEnd # -1
    /\ GrammarInt(Slice(before.off + 1, C3_TextEnd))

C3_NumText ==
    C3_ReadsInt =>
        /\ result = RTok(TokNum(Slice(before.off + 1, C3_TextEnd)))
        /\ offset = C3_TextEnd + 1

-----------------------------------------------------------------------------
(* C4 *)

\* C4: sticky failure.  A call that returns an error leaves Failed(error) on
\* top of the frame stack; no frame below the top is a Failed frame; and
\* every call made with a Failed frame on top returns the error of that
\* frame, returns no token and leaves the cursor and the frame stack as they
\* were, so the Failed frame is never popped or replaced.
C4_StickyFailure ==
    /\ \A k \in 1..Len(state) : state[k].k = "Failed" => k = Len(state)
    /\ result.tag = "Err" => TopIs(state, "Failed") /\ Top(state).err = result.err
    /\ (op # "new" /\ TopIs(before.st, "Failed")) =>
          /\ result = RErr(Top(before.st).err)
          /\ offset = before.off
          /\ state = before.st
          /\ Len(trace) = before.ntok

\* a second next_token call after a lexing error has returned that error again
C4_Witness ==
    /\ op = "next_token"
    /\ TopIs(before.st, "Failed")
    /\ Top(before.st).err.kind = "SyntaxError"
    /\ before.off < Len(source)
    /\ result = RErr(Top(before.st).err)
    /\ offset = before.off

-----------------------------------------------------------------------------
(* C5 *)

\* the list of the specification's auto-skip example
C5_Example == <<"l", "i", "1", "e", "i", "2", "e", "e", "i", "3", "e">>

\* the open token of the sub-decoder the last drop destroyed
C5_Open == trace[dropped.tix]

\* C5: when a ListDecoder or DictDecoder over well-formed content is dropped,
\* whatever the caller read of it, the cursor is then at the byte after the
\* End that matches its open token and the frame stack is as deep as before
\* that open token; in the example, dropping the list unread and reading the
\* parent yields Integer "3".
C5_AutoSkip ==
    /\ (op = "drop" /\ ValueEnd(C5_Open.from) # -1) =>
          /\ offset = ValueEnd(C5_Open.from)
          /\ Len(state) = C5_Open.depth
    /\ (source = C5_Example /\ op = "next" /\ before.off = 8 /\ before.st = <<>>
          /\ dropped.kind = "List") =>
          result = RTok(TokNum(<<"3">>))

-----------------------------------------------------------------------------
(* C6 *)

Opens(toks) == Len(SelectSeq(toks, LAMBDA t : t.t \in {"List", "Dict"}))
Ends(toks) == Len(SelectSeq(toks, LAMBDA t : t.t = "End"))

\* C6: frame balance.  A returned List or Dict token has pushed exactly one
\* frame and a returned End has popped exactly one, so that in a non-failed
\* state the depth of the frame stack is the number of returned List and Dict
\* tokens minus the number of returned End tokens; this includes an open
\* token in a dict value position, which is returned and pushes its frame.
C6_FrameBalance ==
    /\ (op = "next_token" /\ IsOpen(result)) => Len(state) = Len(before.st) + 1
    /\ (op = "next_token" /\ result = RTok(TokEnd)) =>
          Len(state) = Len(before.st) - 1
    /\ ~TopIs(state, "Failed") => Len(state) = Opens(Returned) - Ends(Returned)
    /\ (C1_HasOpenValue /\ WellFormed) => result.tag # "Err"

-----------------------------------------------------------------------------
(* C7 *)

\* how the grammar reads the whole input
C7_Grammar == GrammarRun(0, <<>>, <<>>, FALSE)

\* the string token of the grammar at the cursor of the last call
C7_Key == GrammarToken(before.off)

\* the last call was made in a dict key position after a previous key, a
\* string token at the cursor
C7_AtKey ==
    /\ op = "next_token"
    /\ TopIs(before.st, "MapKey")
    /\ Top(before.st).some
    /\ before.off < Len(source)
    /\ C7_Key.ok
    /\ C7_Key.tok.t = "String"

C7_Prev == Top(before.st).key

\* C7: in a dict key position with previous key prev, a String key k <= prev
\* makes next_token fail with UnsortedKeys, the cursor back on the first byte
\* of k's length prefix, and a key k > prev is accepted, the top frame
\* becoming MapValue(k).  So an input whose first defect is such a key fails
\* with UnsortedKeys, the cursor on that key.
C7_UnsortedKeys ==
    /\ C7_AtKey =>
          IF BytesLess(C7_Prev, C7_Key.tok.v)
          THEN /\ result = RTok(C7_Key.tok)
               /\ Top(state) = MapValue(C7_Key.tok.v)
          ELSE /\ result = RErr(UnsortedKeys)
               /\ offset = before.off
    /\ (C7_Grammar.err = "UnsortedKeys" /\ result.tag = "Err") =>
          /\ result.err = UnsortedKeys
          /\ offset = C7_Grammar.at

-----------------------------------------------------------------------------
(* C8 *)

\* C8: the token read in a dict value position, that is by the call after
\* the one that returned a String key, is a value token or the call fails; it
\* is never End and never the clean end, so the unwrap of DictDecoder::next
\* does not panic.
C8_ValueAfterKey ==
    /\ (op = "next_token" /\ TopIs(before.st, "MapValue")) =>
          \/ result.tag = "Err"
          \/ result.tag = "Some" /\ result.tok.t \in {"String", "Num", "List", "Dict"}
    /\ (panicked /\ op \in {"sub_next", "drop"}) => ~TopIs(before.st, "MapKey")

\* no String token is ever returned, so no call is made in a dict value
\* position or after a previous key: the case of C8 does not occur
C8_NoKeyIsEverRead ==
    /\ \A k \in 1..Len(trace) : trace[k].tok.t # "String"
    /\ \A k \in 1..Len(state) : state[k].k # "MapValue"
    /\ \A k \in 1..Len(state) : ~(state[k].k = "MapKey" /\ state[k].some)

-----------------------------------------------------------------------------
(* C9 *)

\* C9: with an empty frame stack, an 'e' byte makes next_token fail with
\* InvalidState and leaves the cursor where it was, on that 'e'.
C9_TopLevelEnd ==
    (op = "next_token" /\ before.st = <<>> /\ before.off < Len(source)
        /\ At(before.off) = "e") =>
        /\ result = RErr(InvalidState("End not allowed at top level"))
        /\ offset = before.off

-----------------------------------------------------------------------------
(* C10 *)

\* C10: with the cursor at the end of the input, next_token reports the
\* clean end if the frame stack is empty, changing neither cursor nor stack,
\* and fails with UnexpectedEof, latched, if a frame is open.
C10_EndOfInput ==
    (op = "next_token" /\ before.off = Len(source)
        /\ ~TopIs(before.st, "Failed")) =>
        IF before.st = <<>>
        THEN result = RNone /\ offset = before.off /\ state = <<>>
        ELSE /\ result = RErr(UnexpectedEof)
             /\ offset = before.off
             /\ state = Append(before.st, Failed(UnexpectedEof))

-----------------------------------------------------------------------------
(* C11 *)

\* the spans of the returned tokens are non-empty and adjacent, from offset 0
C11_Spans ==
    \A k \in 1..Len(trace) :
        /\ trace[k].from < trace[k].to
        /\ trace[k].from = (IF k = 1 THEN 0 ELSE trace[k - 1].to)

\* the end of the last span
C11_Covered == IF trace = <<>> THEN 0 ELSE trace[Len(trace)].to

\* C11: coverage.  For a well-formed input, no next_token call fails, the
\* spans of the tokens returned so far are non-empty and adjacent starting at
\* offset 0, and when next_token reports the clean end they cover the input
\* up to its last byte.
C11_Coverage ==
    (WellFormed /\ op \in {"new", "next_token"}) =>
        /\ result.tag \in {"Init", "Some", "None"}
        /\ C11_Spans
        /\ result.tag = "None" => C11_Covered = Len(source)

-----------------------------------------------------------------------------
(* C12 *)

\* the token of the grammar at the cursor of the last call
C12_Tok == GrammarToken(before.off)

\* the last call was made in a dict key position with input left
C12_AtKey ==
    /\ op = "next_token"
    /\ TopIs(before.st, "MapKey")
    /\ before.off < Len(source)

C12_KeysMustBeStrings == InvalidState("Map keys must be strings")

\* C12: in a dict key position next_token returns no token other than a
\* String or End; a Num, List or Dict token there fails with InvalidState,
\* the cursor back at the start of that token, and the Failed frame is the
\* only frame pushed.
C12_KeyPosition ==
    C12_AtKey =>
        /\ result.tag = "Some" => result.tok.t \in {"String", "End"}
        /\ (C12_Tok.ok /\ C12_Tok.tok.t \in {"Num", "List", "Dict"}) =>
              /\ result = RErr(C12_KeysMustBeStrings)
              /\ offset = before.off
              /\ state = Append(before.st, Failed(C12_KeysMustBeStrings))

\* an integer in a key position has been rejected and the cursor put back
C12_Witness ==
    /\ C12_AtKey
    /\ C12_Tok.ok
    /\ C12_Tok.tok.t = "Num"
    /\ result = RErr(C12_KeysMustBeStrings)
    /\ offset = before.off
    /\ Len(before.st) >= 2

-----------------------------------------------------------------------------
(* C13 *)

\* the last next_token call ran take_int: the decoder had not failed, peek
\* did not panic, and the byte at the cursor was 'i' or a digit
C13_Called ==
    /\ op = "next_token"
    /\ ~TopIs(before.st, "Failed")
    /\ ~(before.st = <<>> /\ overflowChecks)
    /\ before.off < Len(source)
    /\ At(before.off) \in {"i", "0", "1", "2", "3", "4", "5", "6", "7", "8", "9"}

\* the cursor and the terminator take_int was called with
C13_Start == IF At(before.off) = "i" THEN before.off + 1 ELSE before.off
C13_End == IF At(before.off) = "i" THEN "e" ELSE ":"

\* what take_int did
C13_Got == TakeInt(C13_Start, C13_End)

\* the integer texts: with signedZero as the specification words them (an
\* optional '-', then '0' or a nonzero digit and digits), without it the
\* sign only before a nonzero digit
C13_Text(text, signedZero) ==
    \/ GrammarUnsigned(text)
    \/ /\ Len(text) >= 2
       /\ text[1] = "-"
       /\ GrammarUnsigned(Tail(text))
       /\ signedZero \/ text[2] # "0"

\* text can still grow into an integer text
C13_Prefix(text, signedZero) ==
    text = <<>> \/ text = <<"-">> \/ C13_Text(text, signedZero)

\* the first position from p on that ends the text begun at C13_Start: the
\* end of the input, or a byte that cannot continue an integer text
RECURSIVE C13_Stop(_, _)
C13_Stop(p, signedZero) ==
    IF p >= Len(source) THEN p
    ELSE IF C13_Prefix(Slice(C13_Start, p + 1), signedZero)
    THEN C13_Stop(p + 1, signedZero)
    ELSE p

\* what the grammar says of the call, the text ending at p
C13_ExpectAt(p, signedZero) ==
    IF p >= Len(source)
    THEN [ok |-> FALSE, off |-> C13_Start, kind |-> "UnexpectedEof", at |-> 0]
    ELSE IF At(p) = C13_End /\ C13_Text(Slice(C13_Start, p), signedZero)
    THEN [ok |-> TRUE, off |-> p + 1, kind |-> "-", at |-> 0]
    ELSE [ok |-> FALSE, off |-> C13_Start, kind |-> "SyntaxError", at |-> p]

C13_Expect(signedZero) == C13_ExpectAt(C13_Stop(C13_Start, signedZero), signedZero)

\* take_int did what e says: accepted with the cursor past the terminator,
\* or failed with that kind of error (a SyntaxError carrying that offset),
\* the cursor where it was, and next_token returned that error
C13_Agrees(got, e) ==
    /\ got.ok = e.ok
    /\ got.off = e.off
    /\ ~e.ok => /\ got.err.kind = e.kind
                /\ got.err.at = e.at
                /\ result = RErr(got.err)
                /\ offset = C13_Start

\* C13 as stated: take_int accepts exactly an optional '-', then '0' or a
\* digit 1-9 and digits, then the terminator; other text fails with
\* SyntaxError at the first offending byte, input that ends first with
\* UnexpectedEof, and a failure leaves the cursor unchanged.
C13_TakeIntGrammar == C13_Called => C13_Agrees(C13_Got, C13_Expect(TRUE))

\* C13 amended: as C13, but the '-' is accepted only before a digit 1-9, so
\* that "-0" fails with SyntaxError at the '0'.
C13_TakeIntGrammarNoSignedZero ==
    C13_Called => C13_Agrees(C13_Got, C13_Expect(FALSE))

\* a '-' followed by '0' has been rejected at the '0'
C13_Witness ==
    /\ C13_Called
    /\ source = <<"i", "-", "0", "e">>
    /\ result = RErr(Unexpected("'1'..'9'", "0", 2))
    /\ offset = 1

-----------------------------------------------------------------------------
(* C14 *)

\* the specification's example: inner key "a" under outer key "b"
C14_Example ==
    <<"d", "1", ":", "b", "d", "1", ":", "a", "i", "1", "e", "e", "e">>

\* the last call was made at the first key position of a dict, a string
\* token at the cursor
C14_AtFirstKey ==
    /\ op = "next_token"
    /\ TopIs(before.st, "MapKey")
    /\ ~Top(before.st).some
    /\ before.off < Len(source)
    /\ GrammarToken(before.off).ok
    /\ GrammarToken(before.off).tok.t = "String"

\* the keys read at the nesting depth j, in the order they were read: the
\* String tokens read with j frames open whose frame was then a key position
C14_StringsAt(j) ==
    SelectSeq(trace, LAMBDA t : t.tok.t = "String" /\ t.depth = j)

\* C14: the first key of every dict is accepted whatever the keys of the
\* enclosing dicts are, so the example raises no error; UnsortedKeys is
\* raised only where the grammar finds a key not above the previous key of
\* the same dict; and the previous key a dict frame remembers is a key read
\* at that frame's own depth.
C14_KeyOrderPerDict ==
    /\ C14_AtFirstKey =>
          /\ result = RTok(GrammarToken(before.off).tok)
          /\ Top(state) = MapValue(GrammarToken(before.off).tok.v)
    /\ (source = C14_Example /\ op = "next_token") => result.tag # "Err"
    /\ (result.tag = "Err" /\ result.err = UnsortedKeys) =>
          C7_Grammar.err = "UnsortedKeys"
    /\ \A j \in 1..Len(state) :
          (state[j].k \in {"MapKey", "MapValue"} /\ state[j].some) =>
              \E k \in 1..Len(C14_StringsAt(j)) :
                  C14_StringsAt(j)[k].tok.v = state[j].key

-----------------------------------------------------------------------------
(* C15 *)

\* the last call failed validation: top-level End, non-string key or
\* unsorted key
C15_ValidationFailed ==
    /\ op = "next_token"
    /\ ~TopIs(before.st, "Failed")
    /\ result.tag = "Err"
    /\ result.err.kind \in {"InvalidState", "UnsortedKeys"}

\* C15: cursor monotonicity.  No call leaves the cursor below where it was;
\* a next_token call that returns a token leaves it strictly above; a
\* next_token call that fails validation leaves it where it was.
C15_CursorMonotonic ==
    /\ offset >= before.off
    /\ (op = "next_token" /\ result.tag = "Some") => offset > before.off
    /\ C15_ValidationFailed => offset = before.off

\* an End at top level, after earlier tokens, has been rejected and the
\* cursor put back on it
C15_Witness ==
    /\ C15_ValidationFailed
    /\ result.err = InvalidState("End not allowed at top level")
    /\ before.off > 0
    /\ At(before.off) = "e"
    /\ offset = before.off

-----------------------------------------------------------------------------
(* C16 *)

\* the sub-decoder the last call was made on, as it was at the call
C16_Sub == before.subs[Len(before.subs)]

\* the last call left the decoder as it was and read nothing
C16_Untouched ==
    /\ offset = before.off
    /\ state = before.st
    /\ Len(trace) = before.ntok

\* the End that matches the open token of the sub-decoder h has been read
C16_EndConsumed(h) ==
    \E k \in (h.tix + 1)..Len(trace) :
        /\ trace[k].tok = TokEnd
        /\ trace[k].depth = trace[h.tix].depth + 1

\* C16: a sub-decoder is finished only once the End matching its open token
\* has been consumed; every call of next on a finished sub-decoder returns
\* 'no value' and leaves cursor and frame stack unchanged; and dropping a
\* finished sub-decoder makes one such call and consumes no input.
C16_Exhausted ==
    /\ \A k \in 1..Len(subs) : subs[k].finished => C16_EndConsumed(subs[k])
    /\ (op = "sub_next" /\ C16_Sub.finished) =>
          /\ result = RNone
          /\ C16_Untouched
    /\ (op = "drop" /\ dropped.finished) =>
          /\ C16_EndConsumed(dropped)
          /\ C16_Untouched
          /\ dropped.iters = 1

\* next has been called again on a finished ListDecoder with a sibling left
\* in the input
C16_Witness ==
    /\ op = "sub_next"
    /\ C16_Sub.finished
    /\ C16_Sub.kind = "List"
    /\ before.off < Len(source)
    /\ result = RNone
    /\ offset = before.off

-----------------------------------------------------------------------------
(* C17 *)

\* the input left when the last call was made
C17_Remaining == Len(source) - before.off

\* C17: the drain loop of a dropped ListDecoder or DictDecoder terminates.
\* Every call of next that returns a value has consumed at least one byte;
\* the loop ends with the first call that returns 'no value' or an error;
\* and it makes at least one and at most (remaining input bytes + 1) calls.
\* A loop nested in a drain starts from the state the caller reaches by
\* reading the nested value and dropping it, so the bound is checked at
\* every nesting level.
C17_DrainTerminates ==
    /\ (op \in {"next", "sub_next"} /\ result.tag = "Some") => offset > before.off
    /\ op = "drop" =>
          /\ result.tag \in {"None", "Err"}
          /\ dropped.iters >= 1
          /\ dropped.iters <= C17_Remaining + 1
          /\ offset <= Len(source)

\* an unread list of two items has been drained in three calls
C17_Witness ==
    /\ op = "drop"
    /\ ~dropped.finished
    /\ dropped.iters = 3
    /\ result = RNone
    /\ offset > before.off

-----------------------------------------------------------------------------
(* C18 *)

\* the index the peek of check_error computed in the last call
C18_Index == PeekIndex(before.st)

\* C18: a next_token call, made directly or through next, peeks the frame
\* stack without an arithmetic fault and without computing a wrapped-around
\* index, also when the stack is empty: the index it computes is that of the
\* top frame, or none is needed, and the call does not panic.
C18_PeekNoUnderflow ==
    /\ ~panicked
    /\ op \in {"next_token", "next"} =>
          /\ ~C18_Index.panic
          /\ before.st = <<>> => C18_Index.idx # UsizeMax
          /\ before.st # <<>> => C18_Index.idx = Len(before.st) - 1

-----------------------------------------------------------------------------
(* C19 *)

\* the last call lexed a string whose well-formed length prefix asks for more
\* bytes than the input has left after the ':'
C19_LongPrefix ==
    /\ C13_Called
    /\ C13_End = ":"
    /\ C2_PrefixEnd # -1
    /\ GrammarUnsigned(Slice(before.off, C2_PrefixEnd))
    /\ C2_PrefixEnd + 1 + C2_Len > Len(source)

\* the counts take_chunk is tried with: up to one more than the input holds,
\* and the largest values of the machine word
C19_Counts == (0..(Len(source) + 1)) \cup {UsizeMax - 1, UsizeMax}

\* take_chunk at any cursor in range: a chunk lies inside the input and moves
\* the cursor to its end; a count that exceeds the remaining input, or whose
\* sum with the cursor overflows, yields None and leaves the cursor
C19_ChunkInBounds ==
    \A off \in 0..Len(source), count \in C19_Counts :
        /\ TakeChunk(off, count).off \in off..Len(source)
        /\ TakeChunk(off, count).some =>
              /\ TakeChunk(off, count).off = off + count
              /\ Len(TakeChunk(off, count).bytes) = count
        /\ (off + count > Len(source) \/ off + count > UsizeMax) =>
              /\ ~TakeChunk(off, count).some
              /\ TakeChunk(off, count).off = off

\* C19: the cursor is within 0..length of the input in every state, every
\* span of input a call has read lies within the input, a length prefix
\* that exceeds the remaining input makes the call fail, and take_chunk
\* never yields a chunk that reaches beyond the input.
C19_CursorInBounds ==
    /\ offset \in 0..Len(source)
    /\ before.off \in 0..offset
    /\ \A k \in 1..Len(trace) :
          /\ 0 <= trace[k].from
          /\ trace[k].from <= trace[k].to
          /\ trace[k].to <= Len(source)
    /\ C19_LongPrefix => result.tag = "Err" /\ offset \in before.off..Len(source)
    /\ C19_ChunkInBounds

\* a length prefix that exceeds the remaining input has made the call fail
C19_Witness ==
    /\ C19_LongPrefix
    /\ C2_Len >= 3
    /\ result.tag = "Err"
    /\ offset <= Len(source)

====
